---- MODULE Spec2Model ----
(***************************************************************************)
(* Notus platform: the RunPod serverless handler                           *)
(* (src/runpod-template/handler.py) and the OpenManus HTTP bridge          *)
(* (src/server/openmanus_bridge.py).                                       *)
(*                                                                         *)
(* Python values are modelled as follows.  A dict is a function whose      *)
(* DOMAIN is its set of keys; a list is a sequence; a str is a string;     *)
(* None is the record Null.  Floats are carried as their decimal literal   *)
(* ("0.7"): the code never computes with them, it only passes them on.     *)
(***************************************************************************)
EXTENDS Naturals, Sequences, FiniteSets, TLC

\* Longest messages list a job carries.
MaxMsgs == 2
\* Longest token-id list the engine reports.
MaxTokens == 2

Null == [null |-> TRUE]

\* dict.get(key, default)
Get(d, key, default) == IF key \in DOMAIN d THEN d[key] ELSE default

\* The empty dict {}.
EmptyDict == [k \in {} |-> Null]

MODEL_NAME == "nvidia/NVIDIA-Nemotron-3-Nano-30B-A3B-BF16"

(***************************************************************************)
(* generate_response: the prompt                                           *)
(***************************************************************************)

\* AppendPart with a final else that treats every other role as user.
AppendPart_OtherRoleAsUser(prompt_parts, msg) ==
    LET role == Get(msg, "role", "user")
        content == Get(msg, "content", "")
    IN  IF role = "system" THEN Append(prompt_parts, "<|system|>\n" \o content \o "</s>")
        ELSE IF role = "assistant" THEN Append(prompt_parts, "<|assistant|>\n" \o content \o "</s>")
        ELSE Append(prompt_parts, "<|user|>\n" \o content \o "</s>")

\* One iteration of the loop over messages: prompt_parts after msg.
AppendPart(prompt_parts, msg) ==
    LET role == Get(msg, "role", "user")
        content == Get(msg, "content", "")
    IN  IF role = "system" THEN Append(prompt_parts, "<|system|>\n" \o content \o "</s>")
        ELSE IF role = "user" THEN Append(prompt_parts, "<|user|>\n" \o content \o "</s>")
        ELSE IF role = "assistant" THEN Append(prompt_parts, "<|assistant|>\n" \o content \o "</s>")
        ELSE prompt_parts

\* prompt_parts after the loop has run over messages[1..n].
RECURSIVE PartsAfter(_, _)
PartsAfter(messages, n) ==
    IF n = 0 THEN << >>
    ELSE AppendPart(PartsAfter(messages, n - 1), messages[n])

\* "".join(parts)
RECURSIVE Join(_)
Join(parts) == IF parts = << >> THEN "" ELSE Head(parts) \o Join(Tail(parts))

\* The prompt generate_response hands to llm.generate.
BuildPrompt(messages) ==
    Join(Append(PartsAfter(messages, Len(messages)), "<|assistant|>\n"))

(***************************************************************************)
(* generate_response: sampling parameters and the response envelope        *)
(***************************************************************************)

ParamKeys ==
    {"temperature", "max_tokens", "top_p", "top_k", "stop",
     "presence_penalty", "frequency_penalty"}

\* The keyword arguments generate_response gives SamplingParams.
SamplingKwargs(params) ==
    [temperature       |-> Get(params, "temperature", "0.7"),
     top_p             |-> Get(params, "top_p", "0.9"),
     top_k             |-> Get(params, "top_k", 50),
     max_tokens        |-> Get(params, "max_tokens", 2048),
     stop              |-> Get(params, "stop", <<"</s>", "<|user|>", "<|system|>">>),
     presence_penalty  |-> Get(params, "presence_penalty", "0.0"),
     frequency_penalty |-> Get(params, "frequency_penalty", "0.0")]

\* The characters str.strip() removes that a TLA+ string can hold.
Whitespace == {" ", "\t", "\n", "\r", "\f"}

\* str.strip()
Strip(s) ==
    LET idx == {i \in 1..Len(s) : SubSeq(s, i, i) \notin Whitespace}
        lo == CHOOSE i \in idx : \A j \in idx : i <= j
        hi == CHOOSE i \in idx : \A j \in idx : i >= j
    IN  IF idx = {} THEN "" ELSE SubSeq(s, lo, hi)

\* Choices reporting the engine's own finish reason.
Choices_EngineFinishReason(out) ==
    << [index         |-> 0,
        message       |-> [role |-> "assistant", content |-> Strip(out.text)],
        finish_reason |-> out.finish_reason] >>

\* The "choices" list of the response for the engine's request output out.
Choices(out) ==
    LET generated_text == Strip(out.text)
    IN  << [index         |-> 0,
            message       |-> [role |-> "assistant", content |-> generated_text],
            finish_reason |-> "stop"] >>

\* Usage whose total leaves the prompt out.
Usage_TotalIsCompletion(out) ==
    [prompt_tokens     |-> Len(out.prompt_token_ids),
     completion_tokens |-> Len(out.token_ids),
     total_tokens      |-> Len(out.token_ids)]

\* The "usage" dict of the response.
Usage(out) ==
    LET prompt_tokens == Len(out.prompt_token_ids)
        completion_tokens == Len(out.token_ids)
    IN  [prompt_tokens     |-> prompt_tokens,
         completion_tokens |-> completion_tokens,
         total_tokens      |-> prompt_tokens + completion_tokens]

\* The dict generate_response returns for the engine's request output out
\* (outputs[0], with its single completion outputs[0].outputs[0]).
BuildResponse(out) ==
    [id      |-> "notus-" \o out.request_id,
     object  |-> "chat.completion",
     model   |-> MODEL_NAME,
     choices |-> Choices(out),
     usage   |-> Usage(out)]

(***************************************************************************)
(* handler                                                                 *)
(***************************************************************************)

\* HandlerParams with the top_p default read under the top_k key.
HandlerParams_TopPFromTopK(job_input) ==
    [temperature       |-> Get(job_input, "temperature", "0.7"),
     max_tokens        |-> Get(job_input, "max_tokens", 2048),
     top_p             |-> IF "top_k" \in DOMAIN job_input
                           THEN Get(job_input, "top_p", "1.0")
                           ELSE Get(job_input, "top_p", "0.9"),
     top_k             |-> Get(job_input, "top_k", 50),
     stop              |-> Get(job_input, "stop", <<"</s>", "<|user|>", "<|system|>">>),
     presence_penalty  |-> Get(job_input, "presence_penalty", "0.0"),
     frequency_penalty |-> Get(job_input, "frequency_penalty", "0.0")]

\* The params dict handler builds from job_input.
HandlerParams(job_input) ==
    [temperature       |-> Get(job_input, "temperature", "0.7"),
     max_tokens        |-> Get(job_input, "max_tokens", 2048),
     top_p             |-> Get(job_input, "top_p", "0.9"),
     top_k             |-> Get(job_input, "top_k", 50),
     stop              |-> Get(job_input, "stop", <<"</s>", "<|user|>", "<|system|>">>),
     presence_penalty  |-> Get(job_input, "presence_penalty", "0.0"),
     frequency_penalty |-> Get(job_input, "frequency_penalty", "0.0")]

\* The test left out: every list counts as holding messages.
NoMessages_TestOmitted(messages) == FALSE

\* handler's test "not messages" of the list it read from job_input.
NoMessages(messages) == messages = << >>

\* What handler returns when messages is empty or absent.
NoMessagesError == [error |-> "No messages provided in request"]

\* ErrorResponse naming the caught base class instead of the raised one.
ErrorResponse_BaseClassName(e) == [error |-> e.message, error_type |-> "Exception"]

\* What handler returns for a caught exception e.
ErrorResponse(e) == [error |-> e.message, error_type |-> e.class]

(***************************************************************************)
(* The jobs the worker is given and what the engine may answer.            *)
(***************************************************************************)

Roles == {"system", "user", "assistant", "tool"}
Contents == {"a"}

\* A message dict: "role" and "content" may each be missing.
Messages ==
    {[k \in K |-> IF k = "role" THEN r ELSE c] :
        K \in SUBSET {"role", "content"}, r \in Roles, c \in Contents}

MessageLists == UNION {[1..n -> Messages] : n \in 0..MaxMsgs}

\* A value a caller may send for each generation parameter; none is the
\* default and several are out of the engine's range.
Supplied ==
    [temperature       |-> "-1.5",
     max_tokens        |-> 0,
     top_p             |-> "2.0",
     top_k             |-> 100000,
     stop              |-> <<"END">>,
     presence_penalty  |-> "9.9",
     frequency_penalty |-> "-9.9"]

\* job["input"]: any subset of the parameter keys, with or without messages.
JobInputs ==
    {[k \in K |-> Supplied[k]] : K \in SUBSET ParamKeys}
    \cup {[k \in K \cup {"messages"} |-> IF k = "messages" THEN ms ELSE Supplied[k]] :
            K \in SUBSET ParamKeys, ms \in MessageLists}

\* A job, with or without its "input".
Jobs == {EmptyDict} \cup {[input |-> i] : i \in JobInputs}

TokenIds == UNION {[1..n -> {7}] : n \in 0..MaxTokens}

\* A request output of llm.generate for the one prompt of the batch.
RequestOutputs ==
    [request_id       : {"0"},
     prompt_token_ids : TokenIds,
     token_ids        : TokenIds,
     text             : {" ok\n"},
     finish_reason    : {"stop", "length"}]

\* Exceptions (subclasses of Exception) the engine may raise.
Exceptions ==
    {[class |-> "RuntimeError", message |-> "CUDA out of memory"],
     [class |-> "ValueError", message |-> ""]}

\* How the SamplingParams constructor may end: it takes the arguments, or
\* it raises.
SamplingOutcomes == {[accepted |-> TRUE]} \cup {[raised |-> e] : e \in Exceptions}

VARIABLES
    pc,              \* worker: "idle", "received", "generating", "done"
    job,             \* the job handler is serving, Null when there is none
    prompt,          \* the prompt given to llm.generate, "" outside a call
    sampling_params, \* the SamplingParams given to llm.generate, Null outside a call
    generateCalls,   \* calls of llm.generate made for the job
    outputs,         \* how the call ended: a request output, an exception, or Null
    response         \* what handler returned, Null before it returns

handlerVars == <<pc, job, prompt, sampling_params, generateCalls, outputs, response>>

HandlerInit ==
    /\ pc = "idle"
    /\ job = Null
    /\ prompt = ""
    /\ sampling_params = Null
    /\ generateCalls = 0
    /\ outputs = Null
    /\ response = Null

(***************************************************************************)
(* The OpenManus bridge                                                    *)
(***************************************************************************)

\* Requests the bridge serves at once.
MaxReqs == 2

Reqs == 1..MaxReqs

\* The object ReActAgent(config) returns.
AgentHandle == [agent |-> "ReActAgent"]

\* A str where the code also allows None.
PyStr(s) == [str |-> s]

\* str(v)
StrOf(v) == IF v = Null THEN "None" ELSE v.str

\* bool(v)
Truthy(v) == v # Null /\ v.str # ""

\* raise HTTPException(status_code=..., detail=...)
HTTPException(status_code, detail) == [status_code |-> status_code, detail |-> detail]

\* A returned body, which FastAPI sends with status 200.
Returned(body) == [status_code |-> 200, body |-> body]

TaskResponse(success, result, error, files) ==
    [success |-> success, result |-> result, error |-> error, files |-> files]

\* The test left out: the handle always counts as set.
AgentMissing_TestOmitted(a) == FALSE

\* The test "agent is None" of execute_task and chat.
AgentMissing(a) == a = Null

\* HealthBody that reports the agent ready without looking at the handle.
HealthBody_AlwaysReady(a) == [status |-> "healthy", agent_ready |-> TRUE]

\* health_check's return value.
HealthBody(a) == [status |-> "healthy", agent_ready |-> a # Null]

workspace_path == "/home/ubuntu/OpenManus/workspace"

\* The files list of execute_task for the listing os.listdir gives.
RECURSIVE FilesIn(_)
FilesIn(listing) ==
    IF listing = << >> THEN << >>
    ELSE LET file == Head(listing)
             file_path == workspace_path \o "/" \o file.name
         IN  IF file.isfile THEN <<file_path>> \o FilesIn(Tail(listing))
             ELSE FilesIn(Tail(listing))

\* ExecuteError raising the fault chat raises.
ExecuteError_RaisesFault(e) == HTTPException(500, e.message)

\* execute_task's except clause.
ExecuteError(e) == Returned(TaskResponse(FALSE, Null, PyStr(e.message), << >>))

\* chat's except clause.
ChatError(e) == HTTPException(500, e.message)

\* execute_task after agent.run returned result, the workspace being fs.
ExecuteResult(result, fs) ==
    LET result_text == IF Truthy(result) THEN StrOf(result) ELSE "Task completed"
    IN  IF "raised" \in DOMAIN fs THEN ExecuteError(fs.raised)
        ELSE IF "missing" \in DOMAIN fs
        THEN Returned(TaskResponse(TRUE, PyStr(result_text), Null, << >>))
        ELSE Returned(TaskResponse(TRUE, PyStr(result_text), Null, FilesIn(fs.listing)))

\* chat after agent.run returned result.
ChatResult(result) == Returned([success |-> TRUE, response |-> StrOf(result)])

Tasks == {"", "summarise the report"}

\* What agent.run may return.
RunResults == {Null, PyStr(""), PyStr("done")}

\* What agent.run and the directory listing may raise.
BridgeExceptions == {[class |-> "RuntimeError", message |-> "tool failed"]}

DirEntries == {[name |-> "out.txt", isfile |-> TRUE], [name |-> "cache", isfile |-> FALSE]}

\* What os.listdir may give: the entries, each once, in any order.
Listings ==
    {<< >>} \cup {<<d>> : d \in DirEntries}
            \cup {l \in [1..2 -> DirEntries] : l[1] # l[2]}

\* The workspace directory as execute_task finds it: missing, listed in the
\* order the file system gives, or unreadable.
WorkspaceStates ==
    {[missing |-> TRUE]}
    \cup {[listing |-> l] : l \in Listings}
    \cup {[raised |-> e] : e \in BridgeExceptions}

Free == [st |-> "free"]

VARIABLES
    agent,    \* the module global agent: Null (None) or the handle
    startup,  \* the startup event: "pending", "done", "failed"
    req       \* per request slot: Free, awaiting agent.run, or responded

bridgeVars == <<agent, startup, req>>

vars == <<pc, job, prompt, sampling_params, generateCalls, outputs, response,
          agent, startup, req>>

BridgeInit ==
    /\ agent = Null
    /\ startup = "pending"
    /\ req = [r \in Reqs |-> Free]

Init == HandlerInit /\ BridgeInit

Responded(endpoint, runCalls, run, resp) ==
    [st |-> "responded", endpoint |-> endpoint, runCalls |-> runCalls,
     run |-> run, response |-> resp]

\* startup_event: ReActAgent(config) returns the handle, or raises and the
\* event re-raises.
startup_event ==
    /\ startup = "pending"
    /\ \/ agent' = AgentHandle /\ startup' = "done"
       \/ agent' = agent /\ startup' = "failed"
    /\ UNCHANGED req
    /\ UNCHANGED handlerVars

\* GET /health
health_check(r) ==
    /\ req[r] = Free
    /\ req' = [req EXCEPT ![r] = Responded("/health", 0, Null, Returned(HealthBody(agent)))]
    /\ UNCHANGED <<agent, startup>>
    /\ UNCHANGED handlerVars

\* execute_task up to the await of agent.run(request.task), or to the fault
\* raised when there is no agent.
execute_task_call(r) ==
    /\ req[r] = Free
    /\ IF AgentMissing(agent)
       THEN req' = [req EXCEPT ![r] =
                Responded("/execute", 0, Null, HTTPException(500, "Agent not initialized"))]
       ELSE \E task \in Tasks :
            req' = [req EXCEPT ![r] =
                [st |-> "awaiting", endpoint |-> "/execute", task |-> task,
                 handle |-> agent, runCalls |-> 1]]
    /\ UNCHANGED <<agent, startup>>
    /\ UNCHANGED handlerVars

\* chat up to the await of agent.run(request.task), or to the fault raised
\* when there is no agent.
chat_call(r) ==
    /\ req[r] = Free
    /\ IF AgentMissing(agent)
       THEN req' = [req EXCEPT ![r] =
                Responded("/chat", 0, Null, HTTPException(500, "Agent not initialized"))]
       ELSE \E task \in Tasks :
            req' = [req EXCEPT ![r] =
                [st |-> "awaiting", endpoint |-> "/chat", task |-> task,
                 handle |-> agent, runCalls |-> 1]]
    /\ UNCHANGED <<agent, startup>>
    /\ UNCHANGED handlerVars

\* execute_task from the return of agent.run, or from its exception, to the
\* response.
execute_task_resume(r) ==
    /\ req[r].st = "awaiting"
    /\ req[r].endpoint = "/execute"
    /\ \/ \E result \in RunResults, fs \in WorkspaceStates :
            req' = [req EXCEPT ![r] =
                Responded("/execute", req[r].runCalls, [returned |-> result],
                          ExecuteResult(result, fs))]
       \/ \E e \in BridgeExceptions :
            req' = [req EXCEPT ![r] =
                Responded("/execute", req[r].runCalls, [raised |-> e], ExecuteError(e))]
    /\ UNCHANGED <<agent, startup>>
    /\ UNCHANGED handlerVars

\* chat_resume whose except clause also drops the handle, to have the agent
\* built anew.
chat_resume_DropsHandle(r) ==
    /\ req[r].st = "awaiting"
    /\ req[r].endpoint = "/chat"
    /\ \/ /\ \E result \in RunResults :
                req' = [req EXCEPT ![r] =
                    Responded("/chat", req[r].runCalls, [returned |-> result],
                              ChatResult(result))]
          /\ agent' = agent
       \/ /\ \E e \in BridgeExceptions :
                req' = [req EXCEPT ![r] =
                    Responded("/chat", req[r].runCalls, [raised |-> e], ChatError(e))]
          /\ agent' = Null
    /\ UNCHANGED startup
    /\ UNCHANGED handlerVars

\* chat from the return of agent.run, or from its exception, to the response.
chat_resume(r) ==
    /\ req[r].st = "awaiting"
    /\ req[r].endpoint = "/chat"
    /\ \/ \E result \in RunResults :
            req' = [req EXCEPT ![r] =
                Responded("/chat", req[r].runCalls, [returned |-> result], ChatResult(result))]
       \/ \E e \in BridgeExceptions :
            req' = [req EXCEPT ![r] =
                Responded("/chat", req[r].runCalls, [raised |-> e], ChatError(e))]
    /\ UNCHANGED <<agent, startup>>
    /\ UNCHANGED handlerVars

\* The response has been sent; the slot serves the next request.
Close(r) ==
    /\ req[r].st = "responded"
    /\ req' = [req EXCEPT ![r] = Free]
    /\ UNCHANGED <<agent, startup>>
    /\ UNCHANGED handlerVars

BridgeNext ==
    \/ startup_event
    \/ \E r \in Reqs : health_check(r)
    \/ \E r \in Reqs : execute_task_call(r)
    \/ \E r \in Reqs : chat_call(r)
    \/ \E r \in Reqs : execute_task_resume(r)
    \/ \E r \in Reqs : chat_resume(r)
    \/ \E r \in Reqs : Close(r)

BridgeSpec == Init /\ [][BridgeNext]_vars

(***************************************************************************)
(* The serverless worker                                                   *)
(***************************************************************************)

\* The serverless framework hands the worker a job.
Receive ==
    /\ pc = "idle"
    /\ \E j \in Jobs : job' = j
    /\ pc' = "received"
    /\ UNCHANGED <<prompt, sampling_params, generateCalls, outputs, response>>
    /\ UNCHANGED bridgeVars

\* handler(job) up to its return or to the call of llm.generate inside
\* generate_response.  sp is how the SamplingParams constructor ends.
handler ==
    /\ pc = "received"
    /\ UNCHANGED bridgeVars
    /\ LET job_input == Get(job, "input", EmptyDict)
           messages == Get(job_input, "messages", << >>)
           params == HandlerParams(job_input)
       IN  IF NoMessages(messages)
           THEN /\ pc' = "done"
                /\ response' = NoMessagesError
                /\ job' = Null
                /\ UNCHANGED <<prompt, sampling_params, generateCalls, outputs>>
           ELSE \E sp \in SamplingOutcomes :
                IF "accepted" \in DOMAIN sp
                THEN /\ pc' = "generating"
                     /\ prompt' = BuildPrompt(messages)
                     /\ sampling_params' = SamplingKwargs(params)
                     /\ generateCalls' = generateCalls + 1
                     /\ UNCHANGED <<job, outputs, response>>
                ELSE /\ pc' = "done"
                     /\ response' = ErrorResponse(sp.raised)
                     /\ job' = Null
                     /\ UNCHANGED <<prompt, sampling_params, generateCalls, outputs>>

\* llm.generate returns; generate_response builds the response and handler
\* returns it.
GenerateReturns ==
    /\ pc = "generating"
    /\ \E out \in RequestOutputs :
        /\ outputs' = [returned |-> out]
        /\ response' = BuildResponse(out)
    /\ pc' = "done"
    /\ prompt' = ""
    /\ sampling_params' = Null
    /\ job' = Null
    /\ UNCHANGED generateCalls
    /\ UNCHANGED bridgeVars

\* llm.generate raises; handler's except clause returns the error dict.
GenerateRaises ==
    /\ pc = "generating"
    /\ \E e \in Exceptions :
        /\ outputs' = [raised |-> e]
        /\ response' = ErrorResponse(e)
    /\ pc' = "done"
    /\ prompt' = ""
    /\ sampling_params' = Null
    /\ job' = Null
    /\ UNCHANGED generateCalls
    /\ UNCHANGED bridgeVars

\* The framework takes the response; the worker is free for the next job.
Deliver ==
    /\ pc = "done"
    /\ pc' = "idle"
    /\ response' = Null
    /\ outputs' = Null
    /\ generateCalls' = 0
    /\ UNCHANGED <<job, prompt, sampling_params>>
    /\ UNCHANGED bridgeVars

Next ==
    \/ Receive
    \/ handler
    \/ GenerateReturns
    \/ GenerateRaises
    \/ Deliver

Spec == Init /\ [][Next]_vars

(***************************************************************************)
(* Properties of the serverless worker, checked under Spec.                *)
(***************************************************************************)

\* The messages list of a job as handler reads it.
MessagesOf(j) == Get(Get(j, "input", EmptyDict), "messages", << >>)

\* A message's role and content as generate_response reads them: a missing
\* role counts as "user", a missing content as the empty text.
RoleOf(msg) == IF "role" \in DOMAIN msg THEN msg["role"] ELSE "user"
ContentOf(msg) == IF "content" \in DOMAIN msg THEN msg["content"] ELSE ""

Recognized(msg) == RoleOf(msg) \in {"system", "user", "assistant"}

\* '<|ROLE|>\n' + content + '</s>'
Segment(msg) == "<|" \o RoleOf(msg) \o "|>\n" \o ContentOf(msg) \o "</s>"

\* The segments of the recognized messages from position i on, then the open
\* assistant marker.
RECURSIVE SegmentsFrom(_, _)
SegmentsFrom(messages, i) ==
    IF i > Len(messages) THEN "<|assistant|>\n"
    ELSE IF Recognized(messages[i]) THEN Segment(messages[i]) \o SegmentsFrom(messages, i + 1)
    ELSE SegmentsFrom(messages, i + 1)

EndsWith(s, suffix) ==
    /\ Len(s) >= Len(suffix)
    /\ SubSeq(s, Len(s) - Len(suffix) + 1, Len(s)) = suffix

\* C1: the prompt given to the engine is the concatenation, in input order
\* and without separator, of one segment '<|ROLE|>\n' + content + '</s>' per
\* message whose role is system, user or assistant, followed by the open
\* assistant marker; messages of any other role add nothing, and the prompt
\* ends with the open assistant marker.
C1_PromptIsSegmentsThenMarker ==
    pc = "generating" =>
        /\ prompt = SegmentsFrom(MessagesOf(job), 1)
        /\ EndsWith(prompt, "<|assistant|>\n")

\* A call in flight for a job that mixes a recognized and an unrecognized
\* role, the unrecognized one first.
C1_Witness ==
    /\ pc = "generating"
    /\ Len(MessagesOf(job)) = 2
    /\ RoleOf(MessagesOf(job)[1]) = "tool"
    /\ MessagesOf(job)[2] = [role |-> "system", content |-> "a"]
    /\ prompt = "<|system|>\na</s><|assistant|>\n"

\* C2: a job whose messages list is empty or absent is answered with exactly
\* {"error": "No messages provided in request"} in the very step that takes
\* it, with no call of llm.generate; a call is in flight only for a job with
\* messages.
C2_NoMessagesNoGeneration ==
    /\ [](pc = "generating" => MessagesOf(job) # << >>)
    /\ [][(pc = "received" /\ MessagesOf(job) = << >>) =>
            /\ pc' = "done"
            /\ response' = [error |-> "No messages provided in request"]
            /\ generateCalls' = 0
            /\ outputs' = Null]_vars

\* The handler has answered a job without messages.
C2_Witness ==
    /\ pc = "done"
    /\ response = [error |-> "No messages provided in request"]
    /\ generateCalls = 0
    /\ outputs = Null

\* The documented default of each generation parameter.
DocumentedDefaults ==
    [temperature       |-> "0.7",
     top_p             |-> "0.9",
     top_k             |-> 50,
     max_tokens        |-> 2048,
     stop              |-> <<"</s>", "<|user|>", "<|system|>">>,
     presence_penalty  |-> "0.0",
     frequency_penalty |-> "0.0"]

\* C3: each of the seven generation parameters reaches the engine with the
\* job input's value when the key is present, whatever the value, and with
\* its documented default otherwise.
C3_ParametersPassedOrDefaulted ==
    pc = "generating" =>
        /\ DOMAIN sampling_params = ParamKeys
        /\ \A k \in ParamKeys :
            sampling_params[k] =
                IF k \in DOMAIN job["input"] THEN job["input"][k] ELSE DocumentedDefaults[k]

\* A call in flight with an out-of-range top_k passed through and the
\* temperature defaulted.
C3_Witness ==
    /\ pc = "generating"
    /\ "temperature" \notin DOMAIN job["input"]
    /\ "top_k" \in DOMAIN job["input"]
    /\ sampling_params["temperature"] = "0.7"
    /\ sampling_params["top_k"] = 100000

\* C4: when llm.generate raises, handler returns exactly {error: message,
\* error_type: class name}, and llm.generate is called at most once per job.
C4_GenerateErrorIsReturned ==
    /\ generateCalls <= 1
    /\ (pc = "done" /\ "raised" \in DOMAIN outputs) =>
        /\ response = [error |-> outputs.raised.message,
                       error_type |-> outputs.raised.class]
        /\ generateCalls = 1

\* llm.generate raised and handler has returned.
C4_Witness ==
    /\ pc = "done"
    /\ "raised" \in DOMAIN outputs
    /\ response = [error |-> "CUDA out of memory", error_type |-> "RuntimeError"]

\* C8: in every successful response total_tokens is prompt_tokens plus
\* completion_tokens, and these are the lengths of the token lists the
\* engine reported.
C8_TotalTokensIsSum ==
    (pc = "done" /\ "returned" \in DOMAIN outputs) =>
        /\ response.usage.total_tokens =
                response.usage.prompt_tokens + response.usage.completion_tokens
        /\ response.usage.prompt_tokens = Len(outputs.returned.prompt_token_ids)
        /\ response.usage.completion_tokens = Len(outputs.returned.token_ids)

\* A successful response with both counts positive and different.
C8_Witness ==
    /\ pc = "done"
    /\ "returned" \in DOMAIN outputs
    /\ response.usage.prompt_tokens = 2
    /\ response.usage.completion_tokens = 1
    /\ response.usage.total_tokens = 3

\* C9: every successful response has exactly one choice, with index 0,
\* message role "assistant" and finish_reason "stop", whatever finish reason
\* the engine reported.
C9_SingleChoiceFinishStop ==
    (pc = "done" /\ "returned" \in DOMAIN outputs) =>
        /\ Len(response.choices) = 1
        /\ response.choices[1].index = 0
        /\ response.choices[1].message.role = "assistant"
        /\ response.choices[1].finish_reason = "stop"

\* A successful response for a generation the engine cut at the length limit.
C9_Witness ==
    /\ pc = "done"
    /\ "returned" \in DOMAIN outputs
    /\ outputs.returned.finish_reason = "length"
    /\ response.choices[1].finish_reason = "stop"

(***************************************************************************)
(* Properties of the bridge, checked under BridgeSpec.                     *)
(***************************************************************************)

\* Request slot r has been answered after agent.run raised.
RunRaised(r) == req[r].st = "responded" /\ "raised" \in DOMAIN req[r].run

\* C5: when agent.run raises, POST /execute answers with status 200 and a
\* TaskResponse whose success is false and whose error is the exception
\* message, while POST /chat answers with a status 500 fault and no body
\* carrying a success flag.
C5_ExecuteReturnsChatFaults ==
    \A r \in Reqs : RunRaised(r) =>
        IF req[r].endpoint = "/execute"
        THEN /\ req[r].response.status_code = 200
             /\ "body" \in DOMAIN req[r].response
             /\ req[r].response.body.success = FALSE
             /\ req[r].response.body.error = [str |-> req[r].run.raised.message]
        ELSE /\ req[r].endpoint = "/chat"
             /\ req[r].response.status_code = 500
             /\ "body" \notin DOMAIN req[r].response
             /\ req[r].response.detail = req[r].run.raised.message

\* Both endpoints have answered a request whose agent run raised.
C5_Witness ==
    \E r1, r2 \in Reqs :
        /\ RunRaised(r1) /\ req[r1].endpoint = "/execute"
        /\ RunRaised(r2) /\ req[r2].endpoint = "/chat"
        /\ req[r1].response.body.success = FALSE
        /\ req[r2].response.status_code = 500

\* C6: while the agent handle is not set, a POST /execute or POST /chat is
\* answered at once with the status 500 fault "Agent not initialized" and
\* without a call of agent.run; a run is in flight only after the startup
\* event has set the handle.
C6_NoRunWithoutAgent ==
    /\ [](\A r \in Reqs : req[r].st = "awaiting" =>
            /\ startup = "done"
            /\ agent # Null
            /\ req[r].handle # Null)
    /\ [][\A r \in Reqs :
            (/\ agent = Null
             /\ req[r].st = "free"
             /\ req'[r].st # "free"
             /\ req'[r].endpoint \in {"/execute", "/chat"}) =>
                /\ req'[r].st = "responded"
                /\ req'[r].response =
                        [status_code |-> 500, detail |-> "Agent not initialized"]
                /\ req'[r].runCalls = 0
                /\ req'[r].run = Null]_vars

\* Both endpoints have refused a request made before the handle was set.
C6_Witness ==
    /\ agent = Null
    /\ \E r1, r2 \in Reqs :
        /\ req[r1].st = "responded" /\ req[r1].endpoint = "/execute"
        /\ req[r2].st = "responded" /\ req[r2].endpoint = "/chat"
        /\ req[r1].response.detail = "Agent not initialized"
        /\ req[r2].response.detail = "Agent not initialized"
        /\ req[r1].runCalls = 0
        /\ req[r2].runCalls = 0

\* C7: GET /health always answers with status "healthy" and never faults;
\* its agent_ready is false while the startup event has not set the handle
\* and true once it has.
C7_HealthReportsAgent ==
    /\ [](agent # Null <=> startup = "done")
    /\ [][\A r \in Reqs :
            (/\ req[r].st = "free"
             /\ req'[r].st # "free"
             /\ req'[r].endpoint = "/health") =>
                /\ req'[r].st = "responded"
                /\ req'[r].response =
                        [status_code |-> 200,
                         body |-> [status |-> "healthy",
                                   agent_ready |-> (startup = "done")]]]_vars

\* One health answer given before the startup event and one given after it.
C7_Witness ==
    \E r1, r2 \in Reqs :
        /\ req[r1].st = "responded" /\ req[r1].endpoint = "/health"
        /\ req[r2].st = "responded" /\ req[r2].endpoint = "/health"
        /\ req[r1].response.body.agent_ready = FALSE
        /\ req[r2].response.body.agent_ready = TRUE

\* C10: only the startup event writes the agent handle; no request changes
\* it, so once set it stays the same handle, every run in flight uses it,
\* and no request calls agent.run more than once.
C10_HandleWrittenOnlyByStartup ==
    /\ [][agent' # agent =>
            (startup = "pending" /\ startup' = "done" /\ req' = req)]_vars
    /\ [][agent # Null => agent' = agent]_vars
    /\ [](\A r \in Reqs : req[r].st # "free" => req[r].runCalls <= 1)
    /\ [](\A r \in Reqs : req[r].st = "awaiting" => req[r].handle = agent)

\* A failed request has been answered and another run is in flight on the
\* same handle.
C10_Witness ==
    \E r1, r2 \in Reqs :
        /\ RunRaised(r1)
        /\ req[r1].runCalls = 1
        /\ req[r2].st = "awaiting"
        /\ req[r2].handle = agent
        /\ agent # Null

====
